---- MODULE Spec2Model ----
(***************************************************************************)
(* The memcache-helper class: an EventEmitter wrapping a NodeCache         *)
(* instance (m_cache).  Keys and values are JSON-encoded before they       *)
(* touch m_cache.  Three variants of the class exist in the repository:    *)
(*   "index"     src/src/index.ts                                          *)
(*   "part_000"  src/unnamed/part_000  (no event forwarding, no exists)    *)
(*   "part_001"  src/unnamed/part_001  (the documented, complete variant)  *)
(*                                                                         *)
(* JavaScript values are records [tag, p]: p is the sequence of characters *)
(* that spells the value.  A JavaScript string is [tag |-> "string"], so   *)
(* the result of JSON.stringify is itself such a record.                   *)
(* Date.now() is `now`, in milliseconds; one Tick is one second.           *)
(***************************************************************************)
EXTENDS Integers, Sequences, FiniteSets, TLC

VARIABLES
    variant,        \* which source file the instance was built from
    m_ttl,          \* constructor argument m_ttl (stdTTL of m_cache)
    m_checkPeriod,  \* constructor argument m_checkPeriod (checkperiod of m_cache)
    data,           \* m_cache's store: property name -> [v, t]
    now,            \* Date.now()
    checkTimeout,   \* due time of m_cache's housekeeping timer, -1 when none
    alive,          \* FALSE once an exception escaped a timer callback
    listPending,    \* list() suspended at `await this.keys()`, or returned and not yet settled
    existsPending,  \* exists() suspended at `await this.get(key)`
    emitted,        \* events the instance emitted during the last step
    ret             \* the last step: the operation, how it ended, and set's `existent`

vars == <<variant, m_ttl, m_checkPeriod, data, now, checkTimeout, alive,
          listPending, existsPending, emitted, ret>>

(***************************************************************************)
(* Bounds of the model.                                                    *)
(***************************************************************************)
MaxTicks == 3
\* calls suspended at an await at one time
MaxPending == 1
MaxLen == 2
MaxStack == 3

(***************************************************************************)
(* JavaScript values.                                                      *)
(***************************************************************************)
Str(cs) == [tag |-> "string", p |-> cs]
Num(cs) == [tag |-> "number", p |-> cs]
Null == [tag |-> "null", p |-> <<>>]
NaN == [tag |-> "number", p |-> <<"N", "a", "N">>]
Undefined == [tag |-> "undefined", p |-> <<>>]
Cyclic == [tag |-> "cyclic", p |-> <<>>]
True == [tag |-> "boolean", p |-> <<"t", "r", "u", "e">>]
False == [tag |-> "boolean", p |-> <<"f", "a", "l", "s", "e">>]
Throw(name) == [tag |-> "throw", p |-> <<name>>]
IsThrow(x) == x.tag = "throw"

Digits == {"0", "1", "2", "3", "4", "5", "6", "7", "8", "9"}
NullChars == <<"n", "u", "l", "l">>
Quote == "\""

\* keys and values the callers use
KeyA == Str(<<"a">>)
Key1 == Num(<<"1">>)
GoodKeys == {KeyA, Key1}
BadKeys == {Cyclic}
Keys == GoodKeys \cup BadKeys
Values == {Num(<<"0">>), Str(<<"a">>)}
\* shapes the encoding is specified for: JSON.stringify neither throws,
\* nor returns undefined, nor folds them into another value
Supported(x) == x.tag \in {"string", "null"} \/ (x.tag = "number" /\ x # NaN)

\* the ttl argument of set: <<>> when omitted, <<n>> when given
TTLs == {<<>>, <<0 - 1>>, <<0>>, <<1>>}
Variants == {"index", "part_000", "part_001"}

RECURSIVE SeqsUpTo(_, _)
SeqsUpTo(S, n) ==
    IF n = 0 THEN {<<>>}
    ELSE LET shorter == SeqsUpTo(S, n - 1)
         IN shorter \cup {Append(s, x) : s \in {q \in shorter : Len(q) = n - 1}, x \in S}

KeyLists == SeqsUpTo(Keys, MaxLen)

(***************************************************************************)
(* Encoding and decoding.                                                  *)
(***************************************************************************)
\* JSON.stringify
JSON_stringify(x) ==
    CASE x.tag = "string" -> Str(<<Quote>> \o x.p \o <<Quote>>)
      [] x.tag = "number" -> IF x = NaN THEN Str(NullChars) ELSE Str(x.p)
      [] x.tag = "null" -> Str(NullChars)
      [] x.tag = "boolean" -> Str(x.p)
      [] x.tag = "cyclic" -> Throw("TypeError")
      [] OTHER -> Undefined

\* JSON.parse
JSON_parse(s) ==
    IF s.tag # "string" \/ s.p = <<>> THEN Throw("SyntaxError")
    ELSE IF Head(s.p) = Quote /\ Len(s.p) >= 2 /\ s.p[Len(s.p)] = Quote
         THEN Str(SubSeq(s.p, 2, Len(s.p) - 1))
    ELSE IF s.p = NullChars THEN Null
    ELSE IF s.p = True.p THEN True
    ELSE IF s.p = False.p THEN False
    ELSE IF \A i \in 1..Len(s.p) : s.p[i] \in Digits THEN Num(s.p)
    ELSE Throw("SyntaxError")

stringify(x) == JSON_stringify(x)

\* index.ts: unstringify calls itself until the call stack is exhausted
RECURSIVE unstringify_index(_, _)
unstringify_index(s, depth) ==
    IF depth >= MaxStack THEN Throw("RangeError")
    ELSE unstringify_index(s, depth + 1)

unstringify(s) ==
    IF variant = "index" THEN unstringify_index(s, 0) ELSE JSON_parse(s)


(***************************************************************************)
(* m_cache (NodeCache).  Its methods are operators on a machine record     *)
(*   [data, ev, err, out, omap, num, existent]                             *)
(* data: the store; ev: the events the instance has emitted in this call;  *)
(* err: the name of the exception in flight ("" when none); out, omap and  *)
(* num: the value, the object or the number the method returns (num is -1  *)
(* for undefined); existent: set's flag that the key had an entry.         *)
(***************************************************************************)
NoData == [k \in {} |-> [v |-> Undefined, t |-> 0]]
NoMap == [k \in {} |-> Undefined]
Put(f, k, e) == [x \in DOMAIN f \cup {k} |-> IF x = k THEN e ELSE f[x]]
Drop(f, k) == [x \in DOMAIN f \ {k} |-> f[x]]

Machine(d) ==
    [data |-> d, ev |-> <<>>, err |-> "", out |-> Undefined, omap |-> NoMap, num |-> 0 - 1,
     existent |-> FALSE]
Raise(st, name) == [st EXCEPT !.err = name]

\* the constructor's listeners on m_cache; part_000 registers none
HasForwarding == variant # "part_000"

\* m_cache.emit(kind, key, value): the listener decodes both arguments,
\* then emits the event on the instance; an exception of the listener
\* propagates to the emitter
Forward(st, kind, dk, dv) ==
    IF ~HasForwarding THEN st
    ELSE IF IsThrow(dk) THEN Raise(st, dk.p[1])
    ELSE IF IsThrow(dv) THEN Raise(st, dv.p[1])
    ELSE [st EXCEPT !.ev = Append(@, [kind |-> kind, key |-> dk, value |-> dv])]

\* listeners that hand on the stored tokens as they are
EmitUndecoded(st, kind, key, value) == Forward(st, kind, Str(key), value)

Emit(st, kind, key, value) == Forward(st, kind, unstringify(Str(key)), unstringify(value))

\* the flush listener decodes nothing
EmitFlush(st) ==
    IF ~HasForwarding THEN st
    ELSE [st EXCEPT !.ev = Append(@, [kind |-> "flush", key |-> Undefined, value |-> Undefined])]

\* NodeCache._isInvalidKey: a key is a string or a number
IsInvalidKey(key) == key.tag \notin {"string", "number"}

\* JavaScript falsiness of what m_cache hands back
Falsy(x) == x.tag = "undefined" \/ (x.tag = "string" /\ x.p = <<>>)

\* a _wrap that adds the ttl to the clock without scaling it to milliseconds
WrapTUnscaled(ttl) == IF ttl = 0 THEN 0 ELSE now + ttl

\* NodeCache._wrap: the absolute expiry of a ttl in seconds, 0 for "never"
WrapT(ttl) == IF ttl = 0 THEN 0 ELSE now + ttl * 1000

\* NodeCache._check's test: the entry's time is set and has passed
IsExpired(e) == e.t # 0 /\ e.t < now

\* a del that removes without emitting
DelOneMute(st, key) == [st EXCEPT !.data = Drop(@, key)]

\* NodeCache.del for one valid key: remove, then emit del
DelOne(st, key) ==
    IF key \in DOMAIN st.data
    THEN Emit([st EXCEPT !.data = Drop(@, key)], "del", key, st.data[key].v)
    ELSE st

\* NodeCache.del(keys)
RECURSIVE NC_del(_, _)
NC_del(st, keys) ==
    IF keys = <<>> \/ st.err # "" THEN st
    ELSE IF IsInvalidKey(Head(keys)) THEN Raise(st, "EKEYTYPE")
    ELSE NC_del(DelOne(st, Head(keys).p), Tail(keys))

\* a _check that deletes an expired entry without reporting it
CheckSilently(st, key) ==
    IF IsExpired(st.data[key]) THEN DelOne(st, key) ELSE st

\* NodeCache._check(key, data[key]): an expired entry is deleted (del event)
\* and then reported (expired event)
Expired(s1, key, value) ==
    IF s1.err # "" THEN s1 ELSE Emit(s1, "expired", key, value)

Check(st, key) ==
    IF IsExpired(st.data[key]) THEN Expired(DelOne(st, key), key, st.data[key].v) ELSE st

\* does data[key] exist and pass _check
Live(st, key) == key \in DOMAIN st.data /\ ~IsExpired(st.data[key])

\* a get that restarts the entry's time to live on every hit
NC_getSliding(st, key) ==
    IF IsInvalidKey(key) THEN Raise(st, "EKEYTYPE")
    ELSE IF Live(st, key.p)
         THEN [st EXCEPT !.out = st.data[key.p].v,
                         !.data = Put(@, key.p, [v |-> st.data[key.p].v, t |-> WrapT(m_ttl)])]
    ELSE st

\* NodeCache.get(key)
\* get's return once _check has run on the entry e: its value if it passed
GetChecked(s1, e) ==
    IF s1.err # "" \/ IsExpired(e) THEN s1 ELSE [s1 EXCEPT !.out = e.v]

NC_get(st, key) ==
    IF IsInvalidKey(key) THEN Raise(st, "EKEYTYPE")
    ELSE IF key.p \in DOMAIN st.data THEN GetChecked(Check(st, key.p), st.data[key.p])
    ELSE st

\* an mget that gives up at the first key it does not find
RECURSIVE NC_mgetStopsAtMiss(_, _)
NC_mgetStopsAtMiss(st, keys) ==
    IF keys = <<>> \/ st.err # "" THEN st
    ELSE LET s1 == NC_get([st EXCEPT !.out = Undefined], Head(keys))
         IN IF s1.err # "" \/ ~Live(st, Head(keys).p) THEN s1
            ELSE NC_mgetStopsAtMiss([s1 EXCEPT !.omap = Put(@, Head(keys).p, s1.out)], Tail(keys))

\* NodeCache.mget(keys): the object of the keys found
RECURSIVE NC_mget(_, _)
\* mget's loop body once the first key was looked up: a key found joins the
\* object, the loop goes on with the rest
MgetFetched(found, s1, keys) ==
    IF s1.err # "" THEN s1
    ELSE IF found THEN NC_mget([s1 EXCEPT !.omap = Put(@, Head(keys).p, s1.out)], Tail(keys))
    ELSE NC_mget(s1, Tail(keys))
NC_mget(st, keys) ==
    IF keys = <<>> \/ st.err # "" THEN st
    ELSE MgetFetched(Live(st, Head(keys).p), NC_get([st EXCEPT !.out = Undefined], Head(keys)), keys)

\* NodeCache.set(key, value): ttl is not passed, so stdTTL applies
NC_set(st, key, value) ==
    IF IsInvalidKey(key) THEN Raise(st, "EKEYTYPE")
    ELSE Emit([st EXCEPT !.data = Put(@, key.p, [v |-> value, t |-> WrapT(m_ttl)]),
                         !.existent = key.p \in DOMAIN st.data],
              "set", key.p, value)

\* a ttl that leaves the entry's time as set wrote it
NC_ttlIgnored(st, key, ttl) == st

\* NodeCache.ttl(key, ttl): a falsy ttl becomes stdTTL; a negative ttl deletes
\* ttl's effect once _check has run on the entry e
TtlChecked(s1, key, e, ttl1) ==
    IF s1.err # "" \/ IsExpired(e) THEN s1
    ELSE IF ttl1 >= 0 THEN [s1 EXCEPT !.data = Put(@, key, [v |-> e.v, t |-> WrapT(ttl1)])]
    ELSE DelOne(s1, key)

NC_ttl(st, key, ttl) ==
    IF Falsy(key) THEN st
    ELSE IF IsInvalidKey(key) THEN Raise(st, "EKEYTYPE")
    ELSE IF key.p \in DOMAIN st.data
         THEN TtlChecked(Check(st, key.p), key.p, st.data[key.p], IF ttl = 0 THEN m_ttl ELSE ttl)
    ELSE st

\* NodeCache.getTtl(key): the entry's t, or undefined (modelled as -1)
GetTtlChecked(s1, e) ==
    IF s1.err # "" \/ IsExpired(e) THEN s1 ELSE [s1 EXCEPT !.num = e.t]

NC_getTtl(st, key) ==
    IF Falsy(key) THEN st
    ELSE IF IsInvalidKey(key) THEN Raise(st, "EKEYTYPE")
    ELSE IF key.p \in DOMAIN st.data THEN GetTtlChecked(Check(st, key.p), st.data[key.p])
    ELSE st

\* Object.keys(data): integer-like property names first, then the others in
\* insertion order.  The callers' keys give one name of each kind at most.
IsIndexName(k) == k # <<>> /\ \A i \in 1..Len(k) : k[i] \in Digits
RECURSIVE SetToSeq(_)
SetToSeq(S) ==
    IF S = {} THEN <<>>
    ELSE LET x == CHOOSE y \in S : TRUE IN <<x>> \o SetToSeq(S \ {x})
ObjectKeys(d) ==
    SetToSeq({k \in DOMAIN d : IsIndexName(k)}) \o SetToSeq({k \in DOMAIN d : ~IsIndexName(k)})

\* NodeCache.keys()
NC_keys(st) == ObjectKeys(st.data)

\* NodeCache._checkData's loop: _check on every entry
RECURSIVE CheckAll(_, _)
CheckAll(st, keys) ==
    IF keys = <<>> \/ st.err # "" THEN st
    ELSE CheckAll(Check(st, Head(keys)), Tail(keys))

\* the timer NodeCache._checkData arms: checkperiod seconds from now
NextTimeout == IF m_checkPeriod > 0 THEN now + m_checkPeriod * 1000 ELSE 0 - 1

\* a flushAll that announces the flush and keeps the entries
NC_flushAllKeeps(st) == EmitFlush(st)

\* NodeCache.flushAll(): empty the store, restart the timer, emit flush
NC_flushAll(st) == EmitFlush([st EXCEPT !.data = NoData])


(***************************************************************************)
(* The class's methods.  Each yields [data, ev, ret]: the store and the    *)
(* emitted events after the call, and the call's record.                   *)
(***************************************************************************)
Ret(op) ==
    [op |-> op, key |-> Undefined, val |-> Undefined, ttl |-> <<>>, keys |-> <<>>,
     status |-> "ok", out |-> Undefined, okeys |-> <<>>, omap |-> NoMap, num |-> 0 - 1,
     existent |-> FALSE]

Done(st, r) ==
    [data |-> st.data, ev |-> st.ev,
     ret |-> [r EXCEPT !.status = IF st.err # "" THEN st.err ELSE @,
                       !.existent = st.existent]]
Failed(d, r, name) == [data |-> d, ev |-> <<>>, ret |-> [r EXCEPT !.status = name]]

\* Array.map: an exception of the callback ends the map; a map that threw
\* is the one-element sequence of its exception
MapThrew(xs) == xs # <<>> /\ IsThrow(xs[1])
MapStep(h, rest) ==
    IF IsThrow(h) THEN <<h>>
    ELSE IF MapThrew(rest) THEN rest
    ELSE <<h>> \o rest

\* keys.map(key => this.stringify(key))
RECURSIVE MapStringify(_)
MapStringify(ks) ==
    IF ks = <<>> THEN <<>>
    ELSE MapStep(stringify(Head(ks)), MapStringify(Tail(ks)))

\* names.map(key => this.unstringify(key))
RECURSIVE MapUnstringify(_)
MapUnstringify(names) ==
    IF names = <<>> THEN <<>>
    ELSE MapStep(unstringify(Str(Head(names))), MapUnstringify(Tail(names)))

\* set(key, value, ttl = this.m_ttl)
\* set after m_cache.set: m_cache.ttl(set_key, ttl)
SetStored(r, s1, set_key, ttlArg) ==
    IF s1.err # "" THEN Done(s1, r) ELSE Done(NC_ttl(s1, set_key, ttlArg), r)

\* set after the key and the value are encoded
SetEncoded(d, r, set_key, sv, ttlArg) ==
    IF IsThrow(set_key) THEN Failed(d, r, set_key.p[1])
    ELSE IF IsThrow(sv) THEN Failed(d, r, sv.p[1])
    ELSE SetStored(r, NC_set(Machine(d), set_key, sv), set_key, ttlArg)

\* the store as a listener of the set event finds it: m_cache.set emits the
\* event from within, before set goes on to m_cache.ttl
SetEventStore(d, key, value) == NC_set(Machine(d), stringify(key), stringify(value)).data

set(d, key, value, ttl) ==
    SetEncoded(d, [Ret("set") EXCEPT !.key = key, !.val = value, !.ttl = ttl],
               stringify(key), stringify(value), IF ttl = <<>> THEN m_ttl ELSE ttl[1])

\* get(key)
\* get's return: the decoded value
GetDecoded(r, s1, dv) ==
    IF IsThrow(dv) THEN Done(Raise(s1, dv.p[1]), r) ELSE Done(s1, [r EXCEPT !.out = dv])

\* get after m_cache.get: a falsy value means the key was not found
GetFetched(r, s1) ==
    IF s1.err # "" THEN Done(s1, r)
    ELSE IF Falsy(s1.out) THEN Done(Raise(s1, "KeyNotFound"), r)
    ELSE GetDecoded(r, s1, unstringify(s1.out))

\* get after the key is encoded
GetEncoded(d, r, set_key) ==
    IF IsThrow(set_key) THEN Failed(d, r, set_key.p[1])
    ELSE GetFetched(r, NC_get(Machine(d), set_key))

get(d, key) == GetEncoded(d, [Ret("get") EXCEPT !.key = key], stringify(key))

\* exists(key): get's outcome as a boolean
ExistsFrom(key, g) ==
    [g EXCEPT !.ret = [Ret("exists") EXCEPT
                           !.key = key,
                           !.out = IF g.ret.status = "ok" THEN True ELSE False]]

exists(d, key) == ExistsFrom(key, get(d, key))

\* ttl(key)
\* ttl after m_cache.getTtl: a falsy time means the key was not found
TtlFetched(r, s1) ==
    IF s1.err # "" THEN Done(s1, r)
    ELSE IF s1.num = 0 - 1 \/ s1.num = 0 THEN Done(Raise(s1, "KeyNotFound"), r)
    ELSE Done(s1, [r EXCEPT !.num = s1.num])

\* ttl after the key is encoded
TtlEncoded(d, r, set_key) ==
    IF IsThrow(set_key) THEN Failed(d, r, set_key.p[1])
    ELSE TtlFetched(r, NC_getTtl(Machine(d), set_key))

ttl(d, key) == TtlEncoded(d, [Ret("ttl") EXCEPT !.key = key], stringify(key))

\* del(key)
\* del and mdel after the keys are encoded: m_cache.del(keys)
DelEncoded(d, r, fetch_keys) ==
    IF MapThrew(fetch_keys) THEN Failed(d, r, fetch_keys[1].p[1])
    ELSE Done(NC_del(Machine(d), fetch_keys), r)

del(d, key) == DelEncoded(d, [Ret("del") EXCEPT !.key = key], <<stringify(key)>>)

\* mdel(keys)
mdel(d, ks) == DelEncoded(d, [Ret("mdel") EXCEPT !.keys = ks], MapStringify(ks))

\* mget's loop over Object.keys(data): decode every truthy value found
RECURSIVE DecodeFound(_, _, _)
\* the loop's body for one truthy value: decode the name and the value
DecodeOne(st, found, names, dk, dv) ==
    IF IsThrow(dk) THEN Raise(st, dk.p[1])
    ELSE IF IsThrow(dv) THEN Raise(st, dv.p[1])
    ELSE DecodeFound([st EXCEPT !.omap = Put(@, dk, dv)], found, Tail(names))
DecodeFound(st, found, names) ==
    IF names = <<>> \/ st.err # "" THEN st
    ELSE IF Falsy(found[Head(names)]) THEN DecodeFound(st, found, Tail(names))
    ELSE DecodeOne(st, found, names, unstringify(Str(Head(names))), unstringify(found[Head(names)]))

\* mget's return: the decoded object
MgetDecoded(r, s2) ==
    IF s2.err # "" THEN Done(s2, r) ELSE Done(s2, [r EXCEPT !.omap = s2.omap])

\* mget after m_cache.mget
MgetResult(r, s1) ==
    IF s1.err # "" THEN Done(s1, r)
    ELSE MgetDecoded(r, DecodeFound([s1 EXCEPT !.omap = NoMap], s1.omap, ObjectKeys(s1.omap)))

\* mget after the keys are encoded
MgetEncoded(d, r, fetch_keys) ==
    IF MapThrew(fetch_keys) THEN Failed(d, r, fetch_keys[1].p[1])
    ELSE MgetResult(r, NC_mget(Machine(d), fetch_keys))

\* mget(keys)
mget(d, ks, op) == MgetEncoded(d, [Ret(op) EXCEPT !.keys = ks], MapStringify(ks))

\* keys()
KeysDecoded(d, r, ks) ==
    IF MapThrew(ks) THEN Failed(d, r, ks[1].p[1])
    ELSE Done(Machine(d), [r EXCEPT !.okeys = ks])

keys(d) == KeysDecoded(d, Ret("keys"), MapUnstringify(NC_keys(Machine(d))))

\* flush()
flush(d) == Done(NC_flushAll(Machine(d)), Ret("flush"))


(***************************************************************************)
(* The state machine.                                                      *)
(***************************************************************************)
Outcome(op, status, existent) == [op |-> op, status |-> status, existent |-> existent]

\* no list() under way: keys are the keys list took, status how keys() or
\* mget ended, resumed whether the continuation has run mget
NoList == [pending |-> FALSE, keys |-> <<>>, status |-> "ok", resumed |-> FALSE]
\* no exists() under way: out is what the continuation will return, behind
\* whether a continuation of list() was queued before it
NoExists == [pending |-> FALSE, out |-> False, behind |-> FALSE]

InitOf(variants, ttls, periods) ==
    /\ variant \in variants
    /\ m_ttl \in ttls
    /\ m_checkPeriod \in periods
    /\ data = NoData
    /\ now = 1000
    /\ checkTimeout = NextTimeout
    /\ alive = TRUE
    /\ listPending = NoList
    /\ existsPending = NoExists
    /\ emitted = <<>>
    /\ ret = Outcome("new", "ok", FALSE)

\* the documented variant, built with a positive default TTL and period
Init == InitOf({"part_001"}, {2}, {1, 2})
\* every variant of the class
InitVariants == InitOf(Variants, {2}, {1, 2})
\* every kind of construction: a default TTL of 0 (entries never expire) or
\* more, a check period of 0 (no timer) or more
InitConstructions == InitOf({"part_001"}, {0, 2}, {0, 1})

\* a call the caller issues: the process is up
CanCall == alive

\* the calls suspended at an await
Suspended ==
    (IF listPending.pending THEN 1 ELSE 0) + (IF existsPending.pending THEN 1 ELSE 0)

\* the outcome r of a method becomes the next state
Apply(r) ==
    /\ data' = r.data
    /\ emitted' = r.ev
    /\ ret' = Outcome(r.ret.op, r.ret.status, r.ret.existent)

Set(key, value, t) ==
    /\ CanCall
    /\ Apply(set(data, key, value, t))
    /\ UNCHANGED <<variant, m_ttl, m_checkPeriod, now, checkTimeout, alive, listPending, existsPending>>

Get(key) ==
    /\ CanCall
    /\ Apply(get(data, key))
    /\ UNCHANGED <<variant, m_ttl, m_checkPeriod, now, checkTimeout, alive, listPending, existsPending>>

\* exists()'s await on get's promise: get has run to its end, the outcome r
\* of exists is fixed, and the return is a continuation queued behind a
\* continuation of list() that is still to run
ExistsAwait(r) ==
    /\ data' = r.data
    /\ emitted' = r.ev
    /\ existsPending' = [pending |-> TRUE, out |-> r.ret.out,
                         behind |-> listPending.pending /\ ~listPending.resumed]
    /\ ret' = Outcome("exists", "pending", FALSE)

\* exists(key) up to `await this.get(key)`; part_000 and index.ts have no
\* exists
ExistsCall(key) ==
    /\ CanCall
    /\ variant = "part_001"
    /\ ~existsPending.pending
    /\ Suspended < MaxPending
    /\ ExistsAwait(exists(data, key))
    /\ UNCHANGED <<variant, m_ttl, m_checkPeriod, now, checkTimeout, alive, listPending>>

\* exists() after the await: return true, or false from the catch
ExistsResume ==
    /\ alive
    /\ existsPending.pending
    /\ ~(existsPending.behind /\ listPending.pending /\ ~listPending.resumed)
    /\ existsPending' = NoExists
    /\ emitted' = <<>>
    /\ ret' = Outcome("exists", "ok", FALSE)
    /\ UNCHANGED <<variant, m_ttl, m_checkPeriod, data, now, checkTimeout, alive, listPending>>

Ttl(key) ==
    /\ CanCall
    /\ Apply(ttl(data, key))
    /\ UNCHANGED <<variant, m_ttl, m_checkPeriod, now, checkTimeout, alive, listPending, existsPending>>

Del(key) ==
    /\ CanCall
    /\ Apply(del(data, key))
    /\ UNCHANGED <<variant, m_ttl, m_checkPeriod, now, checkTimeout, alive, listPending, existsPending>>

MDel(ks) ==
    /\ CanCall
    /\ Apply(mdel(data, ks))
    /\ UNCHANGED <<variant, m_ttl, m_checkPeriod, now, checkTimeout, alive, listPending, existsPending>>

MGet(ks) ==
    /\ CanCall
    /\ Apply(mget(data, ks, "mget"))
    /\ UNCHANGED <<variant, m_ttl, m_checkPeriod, now, checkTimeout, alive, listPending, existsPending>>

KeysCall ==
    /\ CanCall
    /\ Apply(keys(data))
    /\ UNCHANGED <<variant, m_ttl, m_checkPeriod, now, checkTimeout, alive, listPending, existsPending>>

\* flushAll restarts m_cache's timer
Flush ==
    /\ CanCall
    /\ Apply(flush(data))
    /\ checkTimeout' = NextTimeout
    /\ UNCHANGED <<variant, m_ttl, m_checkPeriod, now, alive, listPending, existsPending>>

\* list()'s await on the outcome r of keys(): the keys, or the rejection
\* the continuation will throw
Await(r) ==
    /\ data' = r.data
    /\ emitted' = r.ev
    /\ listPending' = [pending |-> TRUE, keys |-> r.ret.okeys, status |-> r.ret.status,
                       resumed |-> FALSE]
    /\ ret' = Outcome("list", "pending", FALSE)

\* list() up to `await this.keys()`: the keys are taken, the rest is a
\* continuation that runs after the caller's current synchronous code
ListCall ==
    /\ CanCall
    /\ ~listPending.pending
    /\ Suspended < MaxPending
    /\ Await(keys(data))
    /\ UNCHANGED <<variant, m_ttl, m_checkPeriod, now, checkTimeout, alive, existsPending>>

\* the continuation's `return this.mget(keys)`: mget has run with outcome
\* r, list's own promise follows mget's and settles later
Returned(r) ==
    /\ data' = r.data
    /\ emitted' = r.ev
    /\ listPending' = [pending |-> TRUE, keys |-> <<>>, status |-> r.ret.status,
                       resumed |-> TRUE]
    /\ ret' = Outcome("list", "pending", FALSE)

\* list() after the await, once the continuations queued before it have
\* run: throw the rejection of keys(), or return this.mget(keys)
ListResume ==
    /\ alive
    /\ listPending.pending
    /\ ~listPending.resumed
    /\ ~(existsPending.pending /\ ~existsPending.behind)
    /\ IF listPending.status # "ok"
       THEN /\ listPending' = NoList
            /\ emitted' = <<>>
            /\ ret' = Outcome("list", listPending.status, FALSE)
            /\ data' = data
       ELSE Returned(mget(data, listPending.keys, "list"))
    /\ UNCHANGED <<variant, m_ttl, m_checkPeriod, now, checkTimeout, alive, existsPending>>

\* list()'s promise settles as mget's did, after the continuations that
\* were queued by then
ListSettle ==
    /\ alive
    /\ listPending.pending
    /\ listPending.resumed
    /\ ~(existsPending.pending /\ existsPending.behind)
    /\ listPending' = NoList
    /\ emitted' = <<>>
    /\ ret' = Outcome("list", listPending.status, FALSE)
    /\ UNCHANGED <<variant, m_ttl, m_checkPeriod, data, now, checkTimeout, alive, existsPending>>

\* the outcome s of _checkData's loop; the timer is re-armed after the loop
Swept(s) ==
    /\ data' = s.data
    /\ emitted' = s.ev
    /\ ret' = Outcome("sweep", IF s.err # "" THEN s.err ELSE "ok", FALSE)
    /\ alive' = (s.err = "")
    /\ checkTimeout' = IF s.err = "" THEN NextTimeout ELSE 0 - 1

\* m_cache's timer fires: _checkData checks every entry and re-arms the
\* timer; an exception that escapes the callback ends the process
Sweep ==
    /\ alive
    /\ ~listPending.pending
    /\ ~existsPending.pending
    /\ checkTimeout >= 0
    /\ now >= checkTimeout
    /\ Swept(CheckAll(Machine(data), ObjectKeys(data)))
    /\ UNCHANGED <<variant, m_ttl, m_checkPeriod, now, listPending, existsPending>>

\* one second passes, also while a call is suspended at its await or the
\* timer is due: the caller's synchronous code takes time, and the timer's
\* callback runs only once that code and the continuations have ended
Tick ==
    /\ alive
    /\ now < 1000 + MaxTicks * 1000
    /\ now' = now + 1000
    /\ emitted' = <<>>
    /\ ret' = Outcome("tick", "ok", FALSE)
    /\ UNCHANGED <<variant, m_ttl, m_checkPeriod, data, checkTimeout, alive, listPending, existsPending>>

Next ==
    \/ \E k \in Keys, v \in Values, t \in TTLs : Set(k, v, t)
    \/ \E k \in Keys : Get(k)
    \/ \E k \in Keys : ExistsCall(k)
    \/ ExistsResume
    \/ \E k \in Keys : Ttl(k)
    \/ \E k \in Keys : Del(k)
    \/ \E ks \in KeyLists : MDel(ks)
    \/ \E ks \in KeyLists : MGet(ks)
    \/ KeysCall
    \/ Flush
    \/ ListCall
    \/ ListResume
    \/ ListSettle
    \/ Sweep
    \/ Tick

Spec == Init /\ [][Next]_vars
SpecVariants == InitVariants /\ [][Next]_vars
SpecConstructions == InitConstructions /\ [][Next]_vars


(***************************************************************************)
(* Properties.                                                             *)
(***************************************************************************)
\* the property name under which a key is stored
NameOf(key) == stringify(key).p
\* the keys of a list, as a set
Elems(ks) == {ks[i] : i \in 1..Len(ks)}
\* lists of keys that all encode
GoodLists == SeqsUpTo(GoodKeys, MaxLen)
\* the positions of the events of one kind about one key
EventsOf(evs, kind, key) == {i \in 1..Len(evs) : evs[i].kind = kind /\ evs[i].key = key}
\* the event's value is a caller's value whose encoding is the stored token
Carries(ev, token) == ev.value \in Values /\ stringify(ev.value) = token
\* a ttl argument that is given and positive
Positive(t) == t # <<>> /\ t[1] > 0

\* C1: set(k, v, ttl) with ttl > 0 and a supported v, followed at once by
\* get(k), returns v, after any sequence of operations.
C1_SetThenGetReturnsValue ==
    [][ret'.op = "set" =>
          \A k \in GoodKeys, v \in Values, t \in TTLs :
              (Supported(v) /\ Positive(t) /\ Set(k, v, t))
                  => (get(data, k).ret.status = "ok" /\ get(data, k).ret.out = v)']_vars

\* C2, the state part: set with a positive ttl stores the expiry now + ttl;
\* get fails with KeyNotFound for a key whose entry is gone or expired;
\* and when the expired entry is still stored (no pass and no read has
\* found it yet, however late the timer is), this get takes it out of the
\* store and emits the one expired event carrying (k, v).
C2_GoneAfterTtlAndInterval ==
    /\ \A k \in GoodKeys, v \in Values, t \in TTLs :
           Positive(t) => set(data, k, v, t).data[NameOf(k)].t = now + t[1] * 1000
    /\ \A k \in GoodKeys :
           (NameOf(k) \notin DOMAIN data \/ IsExpired(data[NameOf(k)]))
               => get(data, k).ret.status = "KeyNotFound"
    /\ \A k \in GoodKeys :
           (NameOf(k) \in DOMAIN data /\ IsExpired(data[NameOf(k)])) =>
               LET r == get(data, k)
               IN /\ NameOf(k) \notin DOMAIN r.data
                  /\ Cardinality(EventsOf(r.ev, "expired", k)) = 1
                  /\ \A i \in EventsOf(r.ev, "expired", k) :
                         Carries(r.ev[i], data[NameOf(k)].v)

\* C2, the step part: a step that is not a write or a delete of k emits
\* exactly one expired event carrying (k, v) when it takes k's expired entry
\* out of the store, be it the sweep or a read, and no expired event for k
\* otherwise.
C2_OneExpiredEventPerRemoval ==
    \A k \in GoodKeys :
        LET n == NameOf(k)
            evs == EventsOf(emitted', "expired", k)
        IN IF /\ n \in DOMAIN data
              /\ n \notin DOMAIN data'
              /\ ret'.op \notin {"set", "del", "mdel", "flush"}
           THEN /\ IsExpired(data[n])
                /\ Cardinality(evs) = 1
                /\ \A i \in evs : Carries(emitted'[i], data[n].v)
           ELSE evs = {}

\* C2: after set(k, v, ttl) with no later write or delete of k, once more
\* than ttl seconds plus one sweep interval have passed, get(k) fails with
\* KeyNotFound and exactly one expired event carrying (k, v) has been
\* emitted for the write: by the pass or the read that took the entry out
\* of the store before, or else by this get.
C2_ExpiredExactlyOnce ==
    [](C2_GoneAfterTtlAndInterval) /\ [][C2_OneExpiredEventPerRemoval]_vars

\* a sweep has just evicted "a" with an expired event, and get("a") fails
C2_Witness ==
    /\ ret.op = "sweep"
    /\ EventsOf(emitted, "expired", KeyA) # {}
    /\ now > 1000 + m_checkPeriod * 1000
    /\ get(data, KeyA).ret.status = "KeyNotFound"

\* C3: whenever the stored entry of k has expiresAt <= now, the boundary
\* now = expiresAt included, get(k) and ttl(k) fail with KeyNotFound and
\* mget omits k.
C3_AbsentFromExpiresAt ==
    \A k \in GoodKeys :
        (NameOf(k) \in DOMAIN data /\ data[NameOf(k)].t <= now)
            => /\ get(data, k).ret.status = "KeyNotFound"
               /\ ttl(data, k).ret.status = "KeyNotFound"
               /\ k \notin DOMAIN mget(data, <<k>>, "mget").ret.omap

\* C4: del and mdel of keys without an entry raise nothing, emit nothing
\* and change nothing; for each key with an entry they remove exactly that
\* entry and emit exactly one del event carrying its key and value.
C4_DeleteTouchesOnlyItsKeys ==
    /\ \A k \in GoodKeys :
           LET r == del(data, k)
           IN /\ r.ret.status = "ok"
              /\ r.data = Drop(data, NameOf(k))
              /\ Len(r.ev) = IF NameOf(k) \in DOMAIN data THEN 1 ELSE 0
              /\ \A i \in 1..Len(r.ev) :
                     /\ r.ev[i].kind = "del"
                     /\ r.ev[i].key = k
                     /\ Carries(r.ev[i], data[NameOf(k)].v)
    /\ \A ks \in GoodLists :
           LET r == mdel(data, ks)
               had == {k \in Elems(ks) : NameOf(k) \in DOMAIN data}
           IN /\ r.ret.status = "ok"
              /\ DOMAIN r.data = DOMAIN data \ {NameOf(k) : k \in Elems(ks)}
              /\ \A n \in DOMAIN r.data : r.data[n] = data[n]
              /\ Len(r.ev) = Cardinality(had)
              /\ \A i \in 1..Len(r.ev) : r.ev[i].kind = "del"
              /\ \A k \in had :
                     /\ Cardinality(EventsOf(r.ev, "del", k)) = 1
                     /\ \A i \in EventsOf(r.ev, "del", k) :
                            Carries(r.ev[i], data[NameOf(k)].v)

\* an mdel has removed one entry, with one del event, and left another
C4_Witness ==
    /\ ret.op = "mdel"
    /\ ret.status = "ok"
    /\ Len(emitted) = 1
    /\ emitted[1].kind = "del"
    /\ data # NoData

\* C5: mget(ks) does not fail on a miss; its mapping has exactly the keys
\* of ks that have a live entry, each with the value get returns for it.
C5_MgetOmitsMisses ==
    \A ks \in GoodLists :
        LET r == mget(data, ks, "mget").ret
        IN /\ r.status = "ok"
           /\ DOMAIN r.omap = {k \in Elems(ks) : NameOf(k) \in DOMAIN data
                                                  /\ ~IsExpired(data[NameOf(k)])}
           /\ \A k \in Elems(ks) : get(data, k).ret.status = "ok" <=> k \in DOMAIN r.omap
           /\ \A k \in DOMAIN r.omap : r.omap[k] = get(data, k).ret.out

\* an mget over a live key and a key that is absent or expired has returned
C5_Witness ==
    /\ ret.op = "mget"
    /\ ret.status = "ok"
    /\ \E k1, k2 \in GoodKeys :
           /\ get(data, k1).ret.status = "ok"
           /\ get(data, k2).ret.status = "KeyNotFound"
           /\ DOMAIN mget(data, <<k1, k2>>, "mget").ret.omap = {k1}

\* C6: flush() leaves no entry, so that keys() is empty and get fails for
\* every key, and emits exactly one flush event, whatever was stored.
C6_FlushEmptiesAndEmitsOnce ==
    LET r == flush(data)
    IN /\ r.ret.status = "ok"
       /\ r.data = NoData
       /\ keys(r.data).ret.okeys = <<>>
       /\ \A k \in GoodKeys : get(r.data, k).ret.status = "KeyNotFound"
       /\ Len(r.ev) = 1
       /\ r.ev[1].kind = "flush"

\* a flush has run
C6_Witness ==
    /\ ret.op = "flush"
    /\ data = NoData
    /\ emitted = <<[kind |-> "flush", key |-> Undefined, value |-> Undefined]>>
    /\ now > 1000

\* C7: set(k, v1) then set(k, v2) leaves one entry for k, holding v2 and
\* the second set's expiry: in every state, set(k, v2) with the default or
\* a positive ttl leaves for k the entry of v2 with the expiry this set
\* computes and leaves the other entries alone; and the store never holds
\* two entries for a key, keys() naming every stored key once.
C7_SetOverwrites ==
    /\ \A k \in GoodKeys, v \in Values, t \in TTLs :
           (t = <<>> \/ Positive(t)) =>
               /\ set(data, k, v, t).ret.status = "ok"
               /\ set(data, k, v, t).data =
                      Put(data, NameOf(k),
                          [v |-> stringify(v),
                           t |-> now + (IF t = <<>> THEN m_ttl ELSE t[1]) * 1000])
    /\ LET ks == keys(data).ret.okeys
       IN /\ Len(ks) = Cardinality(DOMAIN data)
          /\ \A i, j \in 1..Len(ks) : ks[i] = ks[j] => i = j
          /\ \A i \in 1..Len(ks) : NameOf(ks[i]) \in DOMAIN data

\* a set has replaced an entry that the key already had
C7_Witness ==
    /\ ret.op = "set"
    /\ ret.status = "ok"
    /\ ret.existent
    /\ Cardinality(DOMAIN data) = 1

\* C8: every key keys() returns is one a get issued right after finds.
C8_KeysReturnsLiveKeysOnly ==
    LET ks == keys(data).ret.okeys
    IN \A i \in 1..Len(ks) : get(data, ks[i]).ret.status = "ok"

\* C9: in mdel(ks) and mget(ks) a key whose encoding fails does not stop
\* the others: every other key of ks with an entry is removed by mdel, and
\* returned by mget when it is live.
C9_BulkSurvivesEncodingFailure ==
    \A ks \in KeyLists :
        \A k \in Elems(ks) \cap GoodKeys :
            NameOf(k) \in DOMAIN data =>
                /\ NameOf(k) \notin DOMAIN mdel(data, ks).data
                /\ ~IsExpired(data[NameOf(k)])
                       => k \in DOMAIN mget(data, ks, "mget").ret.omap

\* C10: get, exists, keys, list, mget and ttl leave the stored entries as
\* they were, also when an expired entry is still in the store.
C10_ReadsDoNotMutate ==
    [][ret'.op \in {"get", "exists", "keys", "list", "mget", "ttl"} => data' = data]_vars

\* the kinds of the events a call has emitted
KindsOf(evs) == {evs[i].kind : i \in 1..Len(evs)}
\* the reads of the class
Reads == {"get", "exists", "mget", "list", "ttl"}

\* C11: an expired event is never the effect of a read (get, exists, mget,
\* list, ttl), and a del event never comes from an expiry, be it found by
\* a read or by the sweep.  (A set with a negative ttl is left out: what it
\* does is not specified.)
C11_EventProvenance ==
    /\ ret.op \in Reads => "expired" \notin KindsOf(emitted)
    /\ ret.op \in Reads \cup {"sweep"} => "del" \notin KindsOf(emitted)

\* C12: for a live key k, get(k), exists(k) and mget leave the entry's
\* expiry as it was, and ttl(k) returns the same expiry after them.
C12_GetDoesNotSlide ==
    \A k \in GoodKeys :
        get(data, k).ret.status = "ok" =>
            /\ get(data, k).data[NameOf(k)].t = data[NameOf(k)].t
            /\ exists(data, k).data[NameOf(k)].t = data[NameOf(k)].t
            /\ ttl(data, k).ret.status = "ok"
            /\ ttl(get(data, k).data, k).ret = ttl(data, k).ret
            /\ ttl(exists(data, k).data, k).ret = ttl(data, k).ret
            /\ \A ks \in GoodLists :
                   /\ NameOf(k) \in DOMAIN mget(data, ks, "mget").data
                   /\ mget(data, ks, "mget").data[NameOf(k)].t = data[NameOf(k)].t
                   /\ ttl(mget(data, ks, "mget").data, k).ret = ttl(data, k).ret

\* a get has found an entry whose remaining time is shorter than the
\* default time to live
C12_Witness ==
    /\ ret.op = "get"
    /\ ret.status = "ok"
    /\ \E k \in GoodKeys :
           /\ get(data, k).ret.status = "ok"
           /\ data[NameOf(k)].t < now + m_ttl * 1000

\* the entries of store d1 that store d0 does not hold as they are
Written(d0, d1) == {n \in DOMAIN d1 : n \notin DOMAIN d0 \/ d1[n] # d0[n]}

\* C13: set(k, v, ttl), with the default TTL for an omitted ttl, stores
\* the expiry (time of the write) + ttl; every entry a call writes has an
\* expiry after the time of the write, and only set writes entries; and
\* ttl(k) right after set(k, v) is > now and <= now + the default TTL.
C13_ExpiryIsWriteTimePlusTtl ==
    /\ \A k \in GoodKeys, v \in Values, t \in TTLs :
           LET r == set(data, k, v, t)
           IN /\ (t = <<>> \/ Positive(t)) =>
                     /\ r.ret.status = "ok"
                     /\ r.data[NameOf(k)].t = now + (IF t = <<>> THEN m_ttl ELSE t[1]) * 1000
              /\ \A n \in Written(data, r.data) : r.data[n].t > now
              /\ t = <<>> =>
                     /\ ttl(r.data, k).ret.status = "ok"
                     /\ ttl(r.data, k).ret.num > now
                     /\ ttl(r.data, k).ret.num <= now + m_ttl * 1000
    /\ \A k \in GoodKeys :
           /\ Written(data, get(data, k).data) = {}
           /\ Written(data, ttl(data, k).data) = {}
           /\ Written(data, del(data, k).data) = {}
    /\ \A ks \in GoodLists :
           /\ Written(data, mget(data, ks, "mget").data) = {}
           /\ Written(data, mdel(data, ks).data) = {}
    /\ Written(data, keys(data).data) = {}
    /\ Written(data, flush(data).data) = {}
    /\ Written(data, CheckAll(Machine(data), ObjectKeys(data)).data) = {}

\* a set with an explicit ttl of one second has stored now + 1 s, after
\* time has passed since the construction
C13_Witness ==
    /\ ret.op = "set"
    /\ ret.status = "ok"
    /\ now > 1000
    /\ \E n \in DOMAIN data : data[n].t = now + 1000

\* C14: ttl(k) returns the entry's expiry for every key with a live entry
\* and fails with KeyNotFound only when k is absent or expired: whatever
\* the construction, ttl(k) succeeds exactly when get(k) succeeds.
C14_TtlSucceedsWhenGetDoes ==
    \A k \in GoodKeys :
        /\ ttl(data, k).ret.status = "ok" <=> get(data, k).ret.status = "ok"
        /\ ttl(data, k).ret.status = "ok" => ttl(data, k).ret.num = data[NameOf(k)].t
        /\ ttl(data, k).ret.status # "ok" =>
               /\ ttl(data, k).ret.status = "KeyNotFound"
               /\ NameOf(k) \notin DOMAIN data \/ IsExpired(data[NameOf(k)])

\* C15: every completed set(k, v, ttl) emits exactly one set event, and it
\* carries the decoded key k and the decoded value v.
C15_SetEmitsOneSetEvent ==
    \A k \in GoodKeys, v \in Values, t \in TTLs :
        LET r == set(data, k, v, t)
            sets == {i \in 1..Len(r.ev) : r.ev[i].kind = "set"}
        IN r.ret.status = "ok" =>
               /\ Cardinality(sets) = 1
               /\ \A i \in sets : r.ev[i].key = k /\ r.ev[i].value = v

\* a set has completed and its set event is the one emitted, after time
\* has passed and over an entry the key already had
C15_Witness ==
    /\ ret.op = "set"
    /\ ret.status = "ok"
    /\ ret.existent
    /\ now > 1000
    /\ \E k \in GoodKeys, v \in Values :
           emitted = <<[kind |-> "set", key |-> k, value |-> v]>>

\* C16: the cache can be disposed, and disposal stops the sweeper: a cache
\* whose timer is armed has an operation after which the process is up, no
\* pass is scheduled any more and so none runs.
C16_SweeperCanBeStopped ==
    (alive /\ checkTimeout >= 0) => ENABLED (Next /\ alive' /\ checkTimeout' < 0)

\* C17: whatever the construction, an entry whose expiry has passed has a
\* pass of the timer ahead that removes it, no caller's operation needed;
\* a pass emits one expired(key, value) for every entry it removes; and
\* after a pass no entry with expiresAt <= now is left in the store.
C17_ActiveExpiration ==
    /\ \A n \in DOMAIN data : IsExpired(data[n]) => (alive /\ checkTimeout >= 0)
    /\ LET s == CheckAll(Machine(data), ObjectKeys(data))
       IN \A k \in GoodKeys :
              (NameOf(k) \in DOMAIN data /\ NameOf(k) \notin DOMAIN s.data) =>
                  /\ Cardinality(EventsOf(s.ev, "expired", k)) = 1
                  /\ \A i \in EventsOf(s.ev, "expired", k) :
                         Carries(s.ev[i], data[NameOf(k)].v)
    /\ ret.op = "sweep" => \A n \in DOMAIN data : data[n].t = 0 \/ data[n].t > now

\* the live entries of a store, decoded: what a full snapshot of it holds
LiveMap(d) ==
    [k \in {x \in GoodKeys : get(d, x).ret.status = "ok"} |-> get(d, k).ret.out]
\* the stores one caller's operation on store d can leave, d itself included
AfterCall(d) ==
    {d} \cup {set(d, k, v, t).data : k \in GoodKeys, v \in Values, t \in TTLs}
        \cup {del(d, k).data : k \in GoodKeys}
        \cup {flush(d).data}

\* C18: the mapping list() resolves to is the full set of live entries of
\* one store state between its call and its completion, also when the
\* caller issues operations (here up to two) after calling list() and
\* before its continuation runs mget on the keys taken at the call.
C18_ListIsSnapshot ==
    \A d1 \in AfterCall(data) :
        \A d2 \in AfterCall(d1) :
            mget(d2, keys(data).ret.okeys, "list").ret.omap
                \in {LiveMap(data), LiveMap(d1), LiveMap(d2)}

\* C19: when the set event of set(k, v, ttl) reaches a listener the write
\* is complete: ttl(k) and get(k) called in the handler return what they
\* return to the caller right after set.
C19_SetEventAfterWrite ==
    \A k \in GoodKeys, v \in Values, t \in TTLs :
        (Positive(t) /\ set(data, k, v, t).ret.status = "ok") =>
            /\ ttl(SetEventStore(data, k, v), k).ret = ttl(set(data, k, v, t).data, k).ret
            /\ get(SetEventStore(data, k, v), k).ret = get(set(data, k, v, t).data, k).ret

\* C20: in every variant decoding returns, and returns what was encoded:
\* unstringify(stringify(x)) = x for every supported x, so that get on a
\* live key, keys() and mget complete.
C20_DecodeInvertsEncode ==
    /\ \A x \in GoodKeys \cup Values : Supported(x) => unstringify(stringify(x)) = x
    /\ keys(data).ret.status = "ok"
    /\ \A k \in GoodKeys :
           (NameOf(k) \in DOMAIN data /\ ~IsExpired(data[NameOf(k)])) =>
               /\ get(data, k).ret.status = "ok"
               /\ mget(data, <<k>>, "mget").ret.status = "ok"

====
